---- MODULE Spec2Model ----
(***************************************************************************)
(* A model of wrap.py: the interactive loop run_repl, the dispatcher       *)
(* handle_command and the pure helpers expand_vars and shlex.split.        *)
(*                                                                         *)
(* A Python str is a sequence of one-character strings, so that strip,     *)
(* startswith, split, the regular expression of expand_vars and the        *)
(* tokenizer are computed character by character.  A Python dict is a      *)
(* sequence of <<key, value>> pairs in insertion order with unique keys.   *)
(***************************************************************************)
EXTENDS Integers, Sequences, FiniteSets, TLC

(***************************************************************************)
(* Bounds of the model.                                                    *)
(***************************************************************************)
\* most physical lines buffered by one continuation (line_parts)
MaxParts == 2
\* most entries of the readline history while more lines are read
MaxHist == 2

(***************************************************************************)
(* Character classes.                                                      *)
(***************************************************************************)
Lower == {"a", "b", "c", "d", "e", "f", "g", "h", "i", "j", "k", "l", "m",
          "n", "o", "p", "q", "r", "s", "t", "u", "v", "w", "x", "y", "z"}

Upper == {"A", "B", "C", "D", "E", "F", "G", "H", "I", "J", "K", "L", "M",
          "N", "O", "P", "Q", "R", "S", "T", "U", "V", "W", "X", "Y", "Z"}

Digits == {"0", "1", "2", "3", "4", "5", "6", "7", "8", "9"}

\* [A-Za-z_]
IdStart == Lower \cup Upper \cup {"_"}

\* [A-Za-z0-9_]
IdChar == IdStart \cup Digits

\* the characters str.strip() removes (those of them a line can hold)
StripWS == {" ", "\t"}

\* shlex.whitespace
ShlexWS == {" ", "\t", "\r", "\n"}

\* shlex.quotes
ShlexQuotes == {"'", "\""}

(***************************************************************************)
(* str methods.                                                            *)
(***************************************************************************)
RECURSIVE LStrip(_)
LStrip(s) == IF s = <<>> \/ s[1] \notin StripWS THEN s ELSE LStrip(Tail(s))

RECURSIVE RStrip(_)
RStrip(s) ==
    IF s = <<>> \/ s[Len(s)] \notin StripWS THEN s
    ELSE RStrip(SubSeq(s, 1, Len(s) - 1))

\* s.strip()
Strip(s) == RStrip(LStrip(s))

\* s.startswith(p)
StartsWith(s, p) == Len(s) >= Len(p) /\ SubSeq(s, 1, Len(p)) = p

\* s.endswith(p)
EndsWith(s, p) ==
    Len(s) >= Len(p) /\ SubSeq(s, Len(s) - Len(p) + 1, Len(s)) = p

\* s[n:]
From(s, n) == SubSeq(s, n + 1, Len(s))

\* c in s
Contains(s, c) == \E i \in 1..Len(s) : s[i] = c

\* s.find(c) + 1: the first position of c in s, 0 when there is none
Find(s, c) ==
    IF Contains(s, c)
    THEN CHOOSE i \in 1..Len(s) : s[i] = c /\ \A j \in 1..(i - 1) : s[j] # c
    ELSE 0

\* a slip in the separator: the segments are joined with a blank
RECURSIVE JoinWithBlank(_)
JoinWithBlank(parts) ==
    IF parts = <<>> THEN <<>>
    ELSE IF Len(parts) = 1 THEN Head(parts)
    ELSE Head(parts) \o <<" ">> \o JoinWithBlank(Tail(parts))

\* the join of parts with the empty separator
RECURSIVE Join(_)
Join(parts) == IF parts = <<>> THEN <<>> ELSE Head(parts) \o Join(Tail(parts))

(***************************************************************************)
(* dict operations on the insertion-ordered pairs.                         *)
(***************************************************************************)
Keys(d) == {d[i][1] : i \in 1..Len(d)}

HasKey(d, k) == \E i \in 1..Len(d) : d[i][1] = k

\* d.get(k, default)
DictGet(d, k, default) ==
    IF HasKey(d, k) THEN d[CHOOSE i \in 1..Len(d) : d[i][1] = k][2] ELSE default

\* d[k] = v: an existing key keeps its place, a new key goes last
DictSet(d, k, v) ==
    IF HasKey(d, k)
    THEN [i \in 1..Len(d) |-> IF d[i][1] = k THEN <<k, v>> ELSE d[i]]
    ELSE Append(d, <<k, v>>)

(***************************************************************************)
(* expand_vars: re.sub of the pattern  $ { [A-Za-z_] [A-Za-z0-9_]* }  with  *)
(* the replacement vars_map.get(key, whole match).                         *)
(***************************************************************************)
\* the position just after the run of [A-Za-z0-9_] that starts at i
RECURSIVE IdEnd(_, _)
IdEnd(s, i) == IF i <= Len(s) /\ s[i] \in IdChar THEN IdEnd(s, i + 1) ELSE i

\* the position of the closing brace of a match starting at i, 0 when the
\* pattern does not match at i
MatchEnd(s, i) ==
    IF /\ i + 3 <= Len(s)
       /\ s[i] = "$"
       /\ s[i + 1] = "{"
       /\ s[i + 2] \in IdStart
       /\ IdEnd(s, i + 3) <= Len(s)
       /\ s[IdEnd(s, i + 3)] = "}"
    THEN IdEnd(s, i + 3)
    ELSE 0

\* the scan of re.sub from position i: matches are found left to right, do
\* not overlap, and the replacement text is not scanned again
RECURSIVE Sub(_, _, _)
Sub(s, i, vars) ==
    IF i > Len(s) THEN <<>>
    ELSE LET e == MatchEnd(s, i) IN
         IF e = 0 THEN <<s[i]>> \o Sub(s, i + 1, vars)
         ELSE DictGet(vars, SubSeq(s, i + 2, e - 1), SubSeq(s, i, e))
                  \o Sub(s, e + 1, vars)

\* a slip in the substitution: the result is expanded once more, so that a
\* reference inside a value is replaced too
expand_vars_twice(s, vars) == Sub(Sub(s, 1, vars), 1, vars)

expand_vars(s, vars) == Sub(s, 1, vars)

(***************************************************************************)
(* shlex.split(s): shlex(s, posix=True) with whitespace_split = True and   *)
(* no commenters, read to the end.  read_token is the state machine of     *)
(* shlex.read_token: state is a blank (between tokens), the letter a (in a *)
(* word), a quote character or the escape character.                       *)
(***************************************************************************)
ParseOk(args) == [ok |-> TRUE, args |-> args, msg |-> ""]

ParseError(msg) == [ok |-> FALSE, args |-> <<>>, msg |-> msg]

RECURSIVE read_token(_, _, _, _, _, _, _)
read_token(s, i, state, escapedstate, token, quoted, acc) ==
    LET eof == i > Len(s)
        \* the token is complete: an empty unquoted one ends the tokens
        emit == IF token = <<>> /\ ~quoted THEN acc ELSE Append(acc, token)
    IN
    IF state = " " THEN
        IF eof THEN ParseOk(emit)
        ELSE IF s[i] \in ShlexWS THEN
            IF token # <<>> \/ quoted
            THEN read_token(s, i + 1, " ", " ", <<>>, FALSE, emit)
            ELSE read_token(s, i + 1, " ", escapedstate, token, quoted, acc)
        ELSE IF s[i] = "\\" THEN
            read_token(s, i + 1, "\\", "a", token, quoted, acc)
        ELSE IF s[i] \in ShlexQuotes THEN
            read_token(s, i + 1, s[i], escapedstate, token, quoted, acc)
        ELSE read_token(s, i + 1, "a", escapedstate, <<s[i]>>, quoted, acc)
    ELSE IF state \in ShlexQuotes THEN
        IF eof THEN ParseError("No closing quotation")
        ELSE IF s[i] = state THEN
            read_token(s, i + 1, "a", escapedstate, token, TRUE, acc)
        ELSE IF s[i] = "\\" /\ state = "\"" THEN
            read_token(s, i + 1, "\\", state, token, TRUE, acc)
        ELSE read_token(s, i + 1, state, escapedstate, Append(token, s[i]),
                        TRUE, acc)
    ELSE IF state = "\\" THEN
        IF eof THEN ParseError("No escaped character")
        ELSE IF /\ escapedstate \in ShlexQuotes
                /\ s[i] # state
                /\ s[i] # escapedstate
        THEN read_token(s, i + 1, escapedstate, escapedstate,
                        token \o <<state, s[i]>>, quoted, acc)
        ELSE read_token(s, i + 1, escapedstate, escapedstate,
                        Append(token, s[i]), quoted, acc)
    ELSE \* state is the letter a
        IF eof THEN ParseOk(emit)
        ELSE IF s[i] \in ShlexWS THEN
            IF token # <<>> \/ quoted
            THEN read_token(s, i + 1, " ", " ", <<>>, FALSE, emit)
            ELSE read_token(s, i + 1, " ", escapedstate, token, quoted, acc)
        ELSE IF s[i] \in ShlexQuotes THEN
            read_token(s, i + 1, s[i], escapedstate, token, quoted, acc)
        ELSE IF s[i] = "\\" THEN
            read_token(s, i + 1, "\\", "a", token, quoted, acc)
        ELSE read_token(s, i + 1, "a", escapedstate, Append(token, s[i]),
                        quoted, acc)

shlex_split(s) == read_token(s, 1, " ", " ", <<>>, FALSE, <<>>)

(***************************************************************************)
(* The environment of the session.                                         *)
(***************************************************************************)
\* the directories that exist; a chdir to anything else fails
Dirs == {<<"/", "a">>, <<"/", "a", "/", "b">>}

\* the exit statuses a child process or the host shell ends with
ExitCodes == {0, 1, 127}

\* what subprocess.call(shell_cmd, shell=True) does: the shell runs and ends
\* with a status, or launching it raises
ShellOutcomes == [kind : {"exit"}, rc : ExitCodes] \cup {[kind |-> "raise", rc |-> 0]}

\* what subprocess.Popen(full) followed by wait() does
PopenOutcomes ==
    [kind : {"exit"}, rc : ExitCodes]
        \cup {[kind |-> "FileNotFoundError", rc |-> 0], [kind |-> "Exception", rc |-> 0]}

\* handle_command made no process call
NoCall == [kind |-> "-", rc |-> 0]

\* sys.argv[1] and sys.argv[2:]
BaseCmds == {<<"g", "i", "t">>}

BaseArgs == {<<>>, << <<"-", "p">> >>}

\* the history file as build_completer finds it
HistFiles == {<< <<"o", "l", "d">> >>}

(***************************************************************************)
(* The physical lines input() returns in the model.                        *)
(***************************************************************************)
ExitLines == {
    <<":", "q">>,  \* :q
    <<":", "q", "u", "i", "t">>,  \* :quit
    <<":", "e", "x", "i", "t">>,  \* :exit
    <<" ", ":", " ", "e", "x", "i", "t", " ">>  \*  : exit 
}

OtherBuiltinLines == {
    <<":", "x", "y", "z">>,  \* :xyz
    <<":", "q", "u", "i", "t", " ", "n", "o", "w">>,  \* :quit now
    <<":", "Q", "u", "i", "t">>,  \* :Quit
    <<":", "h", "e", "l", "p">>,  \* :help
    <<":", "v", "a", "r", "s">>,  \* :vars
    <<":", "p", "w", "d">>,  \* :pwd
    <<":", "h", "i", "s", "t", "o", "r", "y">>,  \* :history
    <<":", "s", "e", "t">>,  \* :set
    <<":", "c", "d">>  \* :cd
}

SetLines == {
    <<":", "s", "e", "t", " ", "k", "=", "1">>,  \* :set k=1
    <<":", "s", "e", "t", " ", "k", "=", "2">>,  \* :set k=2
    <<":", "s", "e", "t", " ", "k">>,  \* :set k
    <<":", "s", "e", "t", " ", " ", "a", " ", "=", " ", "b", "=", "c", " ">>,  \* :set  a = b=c
    <<":", "s", "e", "t", " ", "a", "-", "b", "=", "1">>,  \* :set a-b=1
    <<":", "s", "e", "t", " ", "a", "=", "$", "{", "k", "}">>  \* :set a=${k}
}

CdLines == {
    <<":", "c", "d", " ", "/", "a">>,  \* :cd /a
    <<":", "c", "d", " ", "b">>,  \* :cd b
    <<":", "c", "d", " ", "/", "n", "o">>  \* :cd /no
}

ShellLines == {
    <<"!">>,  \* !
    <<"!", "l", "s">>,  \* !ls
    <<"!", " ", "l", "s", " ", "$", "{", "k", "}">>  \* ! ls ${k}
}

ForwardLines == {
    <<"s", "t", "a", "t", "u", "s">>,  \* status
    <<"e", "c", "h", "o", " ", "\"", "h", "i">>,  \* echo ''hi
    <<"a", " ", "\"", "b", " ", "c", "\"", " ", "'", "d", " ", "e", "'">>,  \* a ''b c'' 'd e'
    <<"e", "c", "h", "o", " ", "$", "{", "k", "}">>,  \* echo ${k}
    <<"x", "$", "{", "a", "}">>,  \* x${a}
    <<"$", "{", "a", "-", "b", "}">>,  \* ${a-b}
    <<"f", "o", "o", "\\", " ">>  \* foo(backslash) 
}

ContinuationLines == {
    <<"f", "o", "o", "\\">>,  \* foo(backslash)
    <<":", "\\">>  \* :(backslash)
}

PlainLines == {
    <<"b", "a", "r">>,  \* bar
    <<"q">>,  \* q
    <<>>,  \* 
    <<" ", " ">>  \*   
}

Lines ==
    ExitLines \cup OtherBuiltinLines \cup SetLines \cup CdLines \cup ShellLines
        \cup ForwardLines \cup ContinuationLines \cup PlainLines

(***************************************************************************)
(* The state of a session.                                                 *)
(***************************************************************************)
VARIABLES
    pc,             \* read: blocked in input(); dispatch: raw is about to be
                    \* handled; wait: handle_command is blocked until the
                    \* child exits; handled: handle_command is over; done:
                    \* run_repl returned; crashed: an exception left run_repl
    HAVE_READLINE,  \* whether the import of readline succeeded
    base_cmd,       \* parameter of run_repl
    base_args,      \* parameter of run_repl
    vars_map,       \* the variables set with :set
    cwd,            \* the working directory of the process
    line_parts,     \* the segments of the logical line being read
    prompt,         \* the prompt of the pending input() call, of the last
                    \* call when none is pending
    line,           \* what the last input() call of this iteration returned
    raw,            \* the logical line of this iteration
    result,         \* what handle_command returned in the last step (raise
                    \* when an exception left it, - when it was not called)
    out,            \* what the last step printed on standard output
    err,            \* what the last step printed on the error stream
    popen_calls,    \* the argument vectors the last handle_command spawned
    shell_calls,    \* the texts the last handle_command gave the host shell
    outcome,        \* what the process call of the last handle_command did
    history,        \* the readline history
    histfile,       \* the content of HISTFILE
    saves,          \* calls of save_history
    hist_writes,    \* calls of readline.write_history_file
    running         \* the child processes started and not yet exited

vars ==
    <<pc, HAVE_READLINE, base_cmd, base_args, vars_map, cwd, line_parts,
      prompt, line, raw, result, out, err, popen_calls, shell_calls, outcome,
      history, histfile, saves, hist_writes, running>>

\* one printed line: a fixed text, a computed text and a number
Msg(tag, text, rc) == [tag |-> tag, text |-> text, rc |-> rc]

\* prompt and cont_prompt
PROMPT == "primary"

cont_prompt == "continuation"

\* readline.set_history_length(1000)
HistoryLength == 1000

\* os.path.basename
RECURSIVE Basename(_)
Basename(p) == IF Contains(p, "/") THEN Basename(From(p, Find(p, "/"))) ELSE p

(***************************************************************************)
(* The built-in handler: the branch of handle_command for a line that      *)
(* starts with a colon.  The value is what the branch returns and prints   *)
(* and the variables and working directory it leaves.                      *)
(***************************************************************************)
\* a slip in the comparison: the exit family is matched in any case
ExitWordsAnyCase ==
    {<<"q">>, <<"q", "u", "i", "t">>, <<"e", "x", "i", "t">>,
     <<"Q">>, <<"Q", "u", "i", "t">>, <<"E", "x", "i", "t">>}

\* the texts that end the session
ExitWords == {<<"q">>, <<"q", "u", "i", "t">>, <<"e", "x", "i", "t">>}

HelpText ==
    << Msg(":help                - this help", <<>>, 0),
       Msg(":set k=v            - set vars, used as ${k}", <<>>, 0),
       Msg(":vars               - list current variables", <<>>, 0),
       Msg(":pwd                - print working directory", <<>>, 0),
       Msg(":cd <path>          - change directory", <<>>, 0),
       Msg(":history            - show history (readline)", <<>>, 0),
       Msg(":exit | :quit | :q  - exit", <<>>, 0) >>

\* a slip in the error path: the directory is taken over though chdir failed
ChdirUnchecked(dir, newdir) ==
    IF StartsWith(newdir, <<"/">>) THEN newdir ELSE dir \o <<"/">> \o newdir

\* os.chdir(newdir) from the directory dir: the directory reached, <<>> when
\* the call raises
Chdir(dir, newdir) ==
    LET target == IF StartsWith(newdir, <<"/">>) THEN newdir
                  ELSE dir \o <<"/">> \o newdir
    IN IF target \in Dirs THEN target ELSE <<>>

Effect(res, o, e, v, d) ==
    [result |-> res, out |-> o, err |-> e, vars_map |-> v, cwd |-> d]

\* a slip in the split: rest is cut at its last equals sign
SetVarAtLastEq(v, rest) ==
    LET eq == CHOOSE i \in 1..Len(rest) :
                  rest[i] = "=" /\ \A j \in (i + 1)..Len(rest) : rest[j] # "="
    IN DictSet(v, Strip(SubSeq(rest, 1, eq - 1)), Strip(From(rest, eq)))

\* k, v = rest.split("=", 1); vars_map[k.strip()] = v.strip()
SetVar(v, rest) ==
    LET eq == Find(rest, "=") IN
    DictSet(v, Strip(SubSeq(rest, 1, eq - 1)), Strip(From(rest, eq)))

\* a slip in the range of the loop: it starts at 0, where get_history_item
\* gives None, and stops before the newest entry
history_lines_from_zero(hist) ==
    [i \in 1..Len(hist) |->
        IF i = 1 THEN Msg("", <<"None">>, 0) ELSE Msg("", hist[i - 1], 0)]

\* for i in range(1, get_current_history_length() + 1):
\*     print(readline.get_history_item(i))
history_lines(hist) == [i \in 1..Len(hist) |-> Msg("", hist[i], 0)]

builtin(cmd, v, d, have_readline, hist) ==
    IF cmd \in ExitWords THEN Effect("break", <<>>, <<>>, v, d)
    ELSE IF cmd = <<"h", "e", "l", "p">> THEN
        Effect("continue", HelpText, <<>>, v, d)
    ELSE IF StartsWith(cmd, <<"s", "e", "t", " ">>) THEN
        LET rest == Strip(From(cmd, 4)) IN
        IF Contains(rest, "=")
        THEN Effect("continue", <<>>, <<>>, SetVar(v, rest), d)
        ELSE Effect("continue", <<>>,
                    <<Msg("Usage: :set key=value", <<>>, 0)>>, v, d)
    ELSE IF cmd = <<"v", "a", "r", "s">> THEN
        Effect("continue",
               [i \in 1..Len(v) |-> Msg("", v[i][1] \o <<"=">> \o v[i][2], 0)],
               <<>>, v, d)
    ELSE IF cmd = <<"p", "w", "d">> THEN
        Effect("continue", <<Msg("", d, 0)>>, <<>>, v, d)
    ELSE IF StartsWith(cmd, <<"c", "d", " ">>) THEN
        LET newdir == Strip(From(cmd, 3)) IN
        IF Chdir(d, newdir) # <<>>
        THEN Effect("continue", <<>>, <<>>, v, Chdir(d, newdir))
        ELSE Effect("continue", <<>>, <<Msg("cd: ", newdir, 0)>>, v, d)
    ELSE IF cmd = <<"h", "i", "s", "t", "o", "r", "y">> /\ have_readline THEN
        Effect("continue", history_lines(hist), <<>>, v, d)
    ELSE Effect("continue", <<>>,
                <<Msg("Unknown built-in. Use :help", <<>>, 0)>>, v, d)

(***************************************************************************)
(* The shell escape: the branch for a line that starts with an exclamation *)
(* mark, given what running the host shell does.                           *)
(***************************************************************************)
shell_escape(shell_cmd, o) ==
    IF shell_cmd = <<>>
    THEN [result |-> "continue", err |-> <<>>, shell_calls |-> <<>>,
          outcome |-> NoCall]
    ELSE IF o.kind = "raise"
    THEN [result |-> "raise", err |-> <<>>, shell_calls |-> <<shell_cmd>>,
          outcome |-> o]
    ELSE [result |-> "continue",
          err |-> IF o.rc # 0
                  THEN <<Msg("[shell] exited with code ", <<>>, o.rc)>>
                  ELSE <<>>,
          shell_calls |-> <<shell_cmd>>,
          outcome |-> o]

(***************************************************************************)
(* Forwarding: expansion, tokenizing and the spawn of the base command,    *)
(* given what the spawn does.                                              *)
(***************************************************************************)
\* a slip in the handler of FileNotFoundError: the missing base command is
\* reported like any other spawn failure and the session goes on
spawn_notfound_continues(cmd, full, o) ==
    IF o.kind \in {"FileNotFoundError", "Exception"}
    THEN [result |-> "None",
          err |-> <<Msg("", <<"spawn error">>, 0)>>,
          popen_calls |-> <<full>>,
          outcome |-> o]
    ELSE [result |-> "None",
          err |-> IF o.rc # 0
                  THEN <<Msg("exited with code ", Basename(cmd), o.rc)>>
                  ELSE <<>>,
          popen_calls |-> <<full>>,
          outcome |-> o]

\* a slip in the handling of the exit status: a failing child ends the
\* session like a missing base command does
spawn_nonzero_breaks(cmd, full, o) ==
    IF o.kind = "FileNotFoundError"
    THEN [result |-> "break",
          err |-> <<Msg("Command not found: ", cmd, 0)>>,
          popen_calls |-> <<full>>,
          outcome |-> o]
    ELSE IF o.kind = "Exception"
    THEN [result |-> "None",
          err |-> <<Msg("", <<"spawn error">>, 0)>>,
          popen_calls |-> <<full>>,
          outcome |-> o]
    ELSE [result |-> IF o.rc # 0 THEN "break" ELSE "None",
          err |-> IF o.rc # 0
                  THEN <<Msg("exited with code ", Basename(cmd), o.rc)>>
                  ELSE <<>>,
          popen_calls |-> <<full>>,
          outcome |-> o]

\* subprocess.Popen(full), proc.wait() and the except clauses around them
spawn(cmd, full, o) ==
    IF o.kind = "FileNotFoundError"
    THEN [result |-> "break",
          err |-> <<Msg("Command not found: ", cmd, 0)>>,
          popen_calls |-> <<full>>,
          outcome |-> o]
    ELSE IF o.kind = "Exception"
    THEN [result |-> "None",
          err |-> <<Msg("", <<"spawn error">>, 0)>>,
          popen_calls |-> <<full>>,
          outcome |-> o]
    ELSE [result |-> "None",
          err |-> IF o.rc # 0
                  THEN <<Msg("exited with code ", Basename(cmd), o.rc)>>
                  ELSE <<>>,
          popen_calls |-> <<full>>,
          outcome |-> o]

\* the parse error of the tokenizer, reported
parse_error(parsed) ==
    [result |-> "continue",
     err |-> <<Msg("parse error: ", <<parsed.msg>>, 0)>>,
     popen_calls |-> <<>>,
     outcome |-> NoCall]

\* a slip in the order of the argument vector: the base-args go last
forward_args_first(line_, cmd, args_, v, o) ==
    LET parsed == shlex_split(expand_vars(line_, v))
    IN IF ~parsed.ok THEN parse_error(parsed)
       ELSE spawn(cmd, <<cmd>> \o parsed.args \o args_, o)

\* a slip in the except clause of the tokenizer: the error is reported but
\* the handler does not return, and the base command runs without arguments
forward_parse_falls_through(line_, cmd, args_, v, o) ==
    LET parsed == shlex_split(expand_vars(line_, v))
    IN IF ~parsed.ok
       THEN [spawn(cmd, <<cmd>> \o args_, o) EXCEPT
                 !.err = parse_error(parsed).err \o @]
       ELSE spawn(cmd, <<cmd>> \o args_ \o parsed.args, o)

forward(line_, cmd, args_, v, o) ==
    LET expanded == expand_vars(line_, v)
        parsed == shlex_split(expanded)
    IN IF ~parsed.ok THEN parse_error(parsed)
       ELSE spawn(cmd, <<cmd>> \o args_ \o parsed.args, o)

(***************************************************************************)
(* run_repl.                                                               *)
(***************************************************************************)
Init ==
    /\ pc = "read"
    /\ HAVE_READLINE \in BOOLEAN
    /\ base_cmd \in BaseCmds
    /\ base_args \in BaseArgs
    /\ vars_map = <<>>
    /\ cwd = <<"/", "a">>
    /\ line_parts = <<>>
    /\ prompt = PROMPT
    /\ line = <<>>
    /\ raw = <<>>
    /\ result = "-"
    /\ out = <<>>
    /\ err = <<>>
    /\ popen_calls = <<>>
    /\ shell_calls = <<>>
    /\ outcome = NoCall
    /\ histfile \in HistFiles
    /\ history = IF HAVE_READLINE THEN histfile ELSE <<>>
    /\ saves = 0
    /\ hist_writes = 0
    /\ running = 0

\* input() with readline keeps a line that is not empty and differs from
\* the newest entry; the history holds at most HistoryLength entries
add_history(hist, l) ==
    IF l = <<>> \/ (hist # <<>> /\ hist[Len(hist)] = l) THEN hist
    ELSE IF Len(hist) >= HistoryLength THEN Append(Tail(hist), l)
    ELSE Append(hist, l)

\* save_history(): the write is tried when readline is there, and a failure
\* of it is swallowed
save_history ==
    /\ saves' = saves + 1
    /\ IF HAVE_READLINE
       THEN /\ hist_writes' = hist_writes + 1
            /\ \E written \in BOOLEAN :
                   histfile' = IF written THEN history' ELSE histfile
       ELSE UNCHANGED <<hist_writes, histfile>>

\* the prompt of an input() call: prompt if not line_parts else cont_prompt
prompt_for(parts) == IF parts = <<>> THEN PROMPT ELSE cont_prompt

\* one call of input() that returns a line
ReadLine ==
    /\ pc = "read"
    /\ HAVE_READLINE => Len(history) < MaxHist
    /\ \E l \in Lines :
        /\ history' = IF HAVE_READLINE THEN add_history(history, l) ELSE history
        /\ IF EndsWith(l, <<"\\">>)
           THEN \* the inner loop goes on
                /\ Len(line_parts) < MaxParts
                /\ line_parts' = Append(line_parts, SubSeq(l, 1, Len(l) - 1))
                /\ line' = l
                /\ pc' = "read"
                /\ UNCHANGED raw
           ELSE /\ raw' = Strip(Join(Append(line_parts, l)))
                /\ IF raw' = <<>>
                   THEN \* continue: the next iteration starts
                        pc' = "read" /\ line_parts' = <<>> /\ line' = <<>>
                   ELSE /\ pc' = "dispatch"
                        /\ line_parts' = Append(line_parts, l)
                        /\ line' = l
        /\ prompt' = IF pc' = "read" THEN prompt_for(line_parts')
                      ELSE prompt_for(line_parts)
    /\ result' = "-"
    /\ out' = <<>>
    /\ err' = <<>>
    /\ popen_calls' = <<>>
    /\ shell_calls' = <<>>
    /\ outcome' = NoCall
    /\ UNCHANGED <<HAVE_READLINE, base_cmd, base_args, vars_map, cwd, histfile,
                   saves, hist_writes, running>>

\* a slip in the handler of EOFError: segments read before the end of the
\* input are joined and handled as a line
ReadEOFHandlesPending ==
    /\ pc = "read"
    /\ prompt' = prompt_for(line_parts)
    /\ UNCHANGED history
    /\ IF Strip(Join(line_parts)) # <<>>
       THEN /\ pc' = "dispatch"
            /\ raw' = Strip(Join(line_parts))
            /\ out' = <<>>
            /\ UNCHANGED <<saves, hist_writes, histfile>>
       ELSE /\ pc' = "done"
            /\ raw' = raw
            /\ out' = <<Msg("", <<>>, 0)>>
            /\ save_history
    /\ result' = "-"
    /\ err' = <<>>
    /\ popen_calls' = <<>>
    /\ shell_calls' = <<>>
    /\ outcome' = NoCall
    /\ UNCHANGED <<HAVE_READLINE, base_cmd, base_args, vars_map, cwd,
                   line_parts, line, running>>

\* one call of input() that raises EOFError
ReadEOF ==
    /\ pc = "read"
    /\ prompt' = prompt_for(line_parts)
    /\ out' = <<Msg("", <<>>, 0)>>
    /\ pc' = "done"
    /\ UNCHANGED history
    /\ save_history
    /\ result' = "-"
    /\ err' = <<>>
    /\ popen_calls' = <<>>
    /\ shell_calls' = <<>>
    /\ outcome' = NoCall
    /\ UNCHANGED <<HAVE_READLINE, base_cmd, base_args, vars_map, cwd,
                   line_parts, line, raw, running>>

\* a slip in the chain of branches: the test for the exclamation mark is
\* missing, and such a line is forwarded
classify_without_shell(r) ==
    IF StartsWith(r, <<":">>) THEN "builtin" ELSE "forward"

\* the branch of handle_command that takes the line r: the tests of
\* raw.startswith in the order of the code
classify(r) ==
    IF StartsWith(r, <<":">>) THEN "builtin"
    ELSE IF StartsWith(r, <<"!">>) THEN "shell"
    ELSE "forward"

\* handle_command on a built-in line
Builtin ==
    /\ pc = "dispatch"
    /\ classify(raw) = "builtin"
    /\ LET e == builtin(Strip(From(raw, 1)), vars_map, cwd, HAVE_READLINE,
                        history)
       IN /\ result' = e.result
          /\ out' = e.out
          /\ err' = e.err
          /\ vars_map' = e.vars_map
          /\ cwd' = e.cwd
          /\ popen_calls' = <<>>
          /\ shell_calls' = <<>>
          /\ outcome' = NoCall
    /\ pc' = "handled"
    /\ UNCHANGED <<HAVE_READLINE, base_cmd, base_args, line_parts, prompt, line,
                   raw, history, histfile, saves, hist_writes, running>>

\* a slip in the spawn: the child is started and not waited for
after_start_without_wait == "handled"

\* where handle_command is once its child runs: subprocess.call and
\* proc.wait() return when the child has exited
after_start == "wait"

\* a slip in the order of handle_command: the variables are expanded before
\* the branch of the shell escape, and the shell gets the expanded text
ShellEscapeExpanded ==
    /\ pc = "dispatch"
    /\ classify(raw) = "shell"
    /\ \E o \in ShellOutcomes :
        LET e == shell_escape(Strip(From(expand_vars(raw, vars_map), 1)), o)
        IN /\ shell_calls' = e.shell_calls
           /\ out' = <<>>
           /\ popen_calls' = <<>>
           /\ IF e.outcome.kind = "exit"
              THEN /\ running' = running + 1
                   /\ pc' = after_start
                   /\ result' = "-"
                   /\ err' = <<>>
                   /\ outcome' = NoCall
              ELSE /\ running' = running
                   /\ pc' = "handled"
                   /\ result' = e.result
                   /\ err' = e.err
                   /\ outcome' = e.outcome
    /\ UNCHANGED <<HAVE_READLINE, base_cmd, base_args, vars_map, cwd,
                   line_parts, prompt, line, raw, history, histfile, saves,
                   hist_writes>>

\* handle_command on a shell escape, up to the start of the host shell, or
\* to the end when no shell starts
ShellEscape ==
    /\ pc = "dispatch"
    /\ classify(raw) = "shell"
    /\ \E o \in ShellOutcomes :
        LET e == shell_escape(Strip(From(raw, 1)), o)
        IN /\ shell_calls' = e.shell_calls
           /\ out' = <<>>
           /\ popen_calls' = <<>>
           /\ IF e.outcome.kind = "exit"
              THEN /\ running' = running + 1
                   /\ pc' = after_start
                   /\ result' = "-"
                   /\ err' = <<>>
                   /\ outcome' = NoCall
              ELSE /\ running' = running
                   /\ pc' = "handled"
                   /\ result' = e.result
                   /\ err' = e.err
                   /\ outcome' = e.outcome
    /\ UNCHANGED <<HAVE_READLINE, base_cmd, base_args, vars_map, cwd,
                   line_parts, prompt, line, raw, history, histfile, saves,
                   hist_writes>>

\* handle_command on a forwarded line, up to the start of the base command,
\* or to the end when no process starts
Forward ==
    /\ pc = "dispatch"
    /\ classify(raw) = "forward"
    /\ \E o \in PopenOutcomes :
        LET e == forward(raw, base_cmd, base_args, vars_map, o)
        IN /\ popen_calls' = e.popen_calls
           /\ out' = <<>>
           /\ shell_calls' = <<>>
           /\ IF e.outcome.kind = "exit"
              THEN /\ running' = running + 1
                   /\ pc' = after_start
                   /\ result' = "-"
                   /\ err' = <<>>
                   /\ outcome' = NoCall
              ELSE /\ running' = running
                   /\ pc' = "handled"
                   /\ result' = e.result
                   /\ err' = e.err
                   /\ outcome' = e.outcome
    /\ UNCHANGED <<HAVE_READLINE, base_cmd, base_args, vars_map, cwd,
                   line_parts, prompt, line, raw, history, histfile, saves,
                   hist_writes>>

\* the child of the line exits with a status: the call that waited for it
\* returns, and handle_command reports the status and returns
ChildExit ==
    /\ pc = "wait"
    /\ running' = running - 1
    /\ \E rc \in ExitCodes :
        LET o == [kind |-> "exit", rc |-> rc]
        IN IF classify(raw) = "shell"
           THEN LET e == shell_escape(Strip(From(raw, 1)), o)
                IN /\ result' = e.result
                   /\ err' = e.err
                   /\ shell_calls' = e.shell_calls
                   /\ outcome' = e.outcome
                   /\ popen_calls' = <<>>
           ELSE LET e == forward(raw, base_cmd, base_args, vars_map, o)
                IN /\ result' = e.result
                   /\ err' = e.err
                   /\ popen_calls' = e.popen_calls
                   /\ outcome' = e.outcome
                   /\ shell_calls' = <<>>
    /\ out' = <<>>
    /\ pc' = "handled"
    /\ UNCHANGED <<HAVE_READLINE, base_cmd, base_args, vars_map, cwd,
                   line_parts, prompt, line, raw, history, histfile, saves,
                   hist_writes>>

\* a slip in the placement of vars_map = {}: it stands inside the loop, and
\* every iteration starts without variables
ContinueWithFreshVars ==
    /\ pc = "handled"
    /\ result \notin {"break", "raise"}
    /\ pc' = "read"
    /\ line_parts' = <<>>
    /\ line' = <<>>
    /\ raw' = <<>>
    /\ result' = "-"
    /\ out' = <<>>
    /\ err' = <<>>
    /\ popen_calls' = <<>>
    /\ shell_calls' = <<>>
    /\ outcome' = NoCall
    /\ prompt' = prompt_for(line_parts')
    /\ vars_map' = <<>>
    /\ UNCHANGED <<HAVE_READLINE, base_cmd, base_args, cwd, history,
                   histfile, saves, hist_writes, running>>

\* the loop goes on after handle_command: the next iteration starts with an
\* empty line_parts; line, raw and result are not read again before they are
\* assigned again, and start the iteration empty
Continue ==
    /\ pc = "handled"
    /\ result \notin {"break", "raise"}
    /\ pc' = "read"
    /\ line_parts' = <<>>
    /\ line' = <<>>
    /\ raw' = <<>>
    /\ result' = "-"
    /\ out' = <<>>
    /\ err' = <<>>
    /\ popen_calls' = <<>>
    /\ shell_calls' = <<>>
    /\ outcome' = NoCall
    /\ prompt' = prompt_for(line_parts')
    /\ UNCHANGED <<HAVE_READLINE, base_cmd, base_args, vars_map, cwd, history,
                   histfile, saves, hist_writes, running>>

\* a slip in the placement of save_history: it follows the loop instead of
\* standing in a finally clause, and an exception that leaves the loop skips it
ExitWithoutFinally ==
    /\ pc = "handled"
    /\ result \in {"break", "raise"}
    /\ pc' = IF result = "break" THEN "done" ELSE "crashed"
    /\ UNCHANGED history
    /\ IF result = "break" THEN save_history
       ELSE UNCHANGED <<saves, hist_writes, histfile>>
    /\ UNCHANGED <<HAVE_READLINE, base_cmd, base_args, vars_map, cwd,
                   line_parts, prompt, line, raw, result, out, err,
                   popen_calls, shell_calls, outcome, running>>

\* the loop ends after handle_command: it returned break, or an exception
\* left it; the finally clause runs save_history
Exit ==
    /\ pc = "handled"
    /\ result \in {"break", "raise"}
    /\ pc' = IF result = "break" THEN "done" ELSE "crashed"
    /\ UNCHANGED history
    /\ save_history
    /\ UNCHANGED <<HAVE_READLINE, base_cmd, base_args, vars_map, cwd,
                   line_parts, prompt, line, raw, result, out, err,
                   popen_calls, shell_calls, outcome, running>>

Next ==
    \/ ReadLine \/ ReadEOF \/ Builtin \/ ShellEscape \/ Forward \/ ChildExit
    \/ Continue \/ Exit

Spec == Init /\ [][Next]_vars

(***************************************************************************)
(* Properties of the session.                                              *)
(***************************************************************************)
IsBuiltin(r) == StartsWith(r, <<":">>)

IsShell(r) == ~IsBuiltin(r) /\ StartsWith(r, <<"!">>)

IsForward(r) == r # <<>> /\ ~StartsWith(r, <<":">>) /\ ~StartsWith(r, <<"!">>)

\* the text of a built-in or shell-escape line after its first character
Body(r) == Strip(From(r, 1))

\* the three texts of the exit family
TheExitWords == {<<"q">>, <<"q", "u", "i", "t">>, <<"e", "x", "i", "t">>}

\* C1: the session ends only by an exit built-in, by a forwarded line whose
\* base command is not found, or by end-of-input; any other failure of a
\* handler leaves a message on the error stream and the loop goes on.
C1_EndsOnlyByExitNotFoundOrEOF ==
    /\ pc \in {"done", "crashed"} =>
           \/ result = "-"
           \/ result = "break" /\ IsBuiltin(raw) /\ Body(raw) \in TheExitWords
           \/ /\ result = "break"
              /\ IsForward(raw)
              /\ outcome.kind = "FileNotFoundError"
    /\ (/\ pc = "handled"
        /\ ~(IsBuiltin(raw) /\ Body(raw) \in TheExitWords)
        /\ outcome.kind # "FileNotFoundError")
           => result \in {"continue", "None"}

\* C2: a forwarded line that tokenizes to args spawns exactly once, with the
\* argument vector [base_cmd] + base_args + args; a built-in line spawns
\* nothing.
C2_ForwardSpawnsBaseThenArgs ==
    /\ (pc = "handled" /\ IsForward(raw)
            /\ shlex_split(expand_vars(raw, vars_map)).ok)
           => popen_calls =
                  << <<base_cmd>> \o base_args
                         \o shlex_split(expand_vars(raw, vars_map)).args >>
    /\ (/\ pc = "handled"
        /\ raw = <<"s", "t", "a", "t", "u", "s">>
        /\ base_cmd = <<"g", "i", "t">>
        /\ base_args = <<>>)
           => popen_calls = << << <<"g", "i", "t">>,
                                  <<"s", "t", "a", "t", "u", "s">> >> >>
    /\ (pc = "handled" /\ IsBuiltin(raw)) => popen_calls = <<>>

\* a forwarded line of three tokens went to the base command after a base-arg
C2_Witness ==
    /\ pc = "handled"
    /\ IsForward(raw)
    /\ base_args # <<>>
    /\ Len(popen_calls) = 1
    /\ Len(popen_calls[1]) = 5
    /\ popen_calls[1][4] = <<"b", " ", "c">>

\* C3: when the base command of a forwarded line cannot be located, the
\* handler reports Command not found on the error stream and returns break,
\* and the loop ends without another read.
C3_NotFoundReportsAndEnds ==
    [][/\ outcome'.kind = "FileNotFoundError" =>
              /\ result' = "break"
              /\ err' = <<Msg("Command not found: ", base_cmd, 0)>>
              /\ pc' \in {"handled", "done"}
       /\ outcome.kind = "FileNotFoundError" =>
              /\ pc = "handled"
              /\ pc' = "done"
              /\ <<line, line_parts, raw, history, outcome>>'
                     = <<line, line_parts, raw, history, outcome>>]_vars

\* the session ended on a base command that was not found
C3_Witness ==
    /\ pc = "done"
    /\ outcome.kind = "FileNotFoundError"
    /\ result = "break"
    /\ err # <<>>

\* C4: when the tokenizer fails on a forwarded line, the handler reports a
\* parse error, spawns nothing, leaves the variables alone and returns
\* continue, and the loop goes to the next prompt.
C4_ParseErrorIsReportedOnly ==
    [][/\ (/\ pc = "dispatch"
           /\ IsForward(raw)
           /\ ~shlex_split(expand_vars(raw, vars_map)).ok)
              => /\ pc' = "handled"
                 /\ result' = "continue"
                 /\ Len(err') = 1
                 /\ err'[1].tag = "parse error: "
                 /\ popen_calls' = <<>>
                 /\ shell_calls' = <<>>
                 /\ outcome' = NoCall
                 /\ vars_map' = vars_map
       /\ (pc = "dispatch" /\ raw = <<"e", "c", "h", "o", " ", "\"", "h", "i">>)
              => /\ err' = <<Msg("parse error: ", <<"No closing quotation">>, 0)>>
                 /\ popen_calls' = <<>>
       /\ (pc = "handled" /\ result = "continue")
              => pc' = "read" /\ prompt' = PROMPT]_vars

\* the unterminated quote was reported while a variable was set
C4_Witness ==
    /\ pc = "handled"
    /\ raw = <<"e", "c", "h", "o", " ", "\"", "h", "i">>
    /\ result = "continue"
    /\ err # <<>>
    /\ vars_map # <<>>

\* C5: whatever running the text of a shell escape through the host shell
\* does, the handler returns continue and the session is not ended; a
\* status that is not zero and an error launching the shell are reported on
\* the error stream.
C5_ShellEscapeAlwaysContinues ==
    shell_calls # <<>> /\ pc # "wait" =>
        /\ pc # "crashed"
        /\ result = "continue"
        /\ (outcome.kind = "raise" \/ outcome.rc # 0) => err # <<>>

\* C6: a built-in line returns break exactly when its text, trimmed, is q,
\* quit or exit in this very case; any other built-in text returns continue
\* and does not end the loop.
C6_OnlyExitWordsBreak ==
    /\ (pc = "handled" /\ IsBuiltin(raw)) =>
           /\ result \in {"break", "continue"}
           /\ result = "break" <=> Body(raw) \in TheExitWords
    /\ (/\ pc = "handled"
        /\ raw \in {<<":", "x", "y", "z">>, <<":", "Q", "u", "i", "t">>,
                    <<":", "q", "u", "i", "t", " ", "n", "o", "w">>})
           => result = "continue"
    /\ (pc \in {"done", "crashed"} /\ IsBuiltin(raw)) =>
           result = "break" /\ Body(raw) \in TheExitWords

\* a built-in that only starts with an exit word was told to be unknown
C6_Witness ==
    /\ pc = "handled"
    /\ raw = <<":", "q", "u", "i", "t", " ", "n", "o", "w">>
    /\ result = "continue"
    /\ err = <<Msg("Unknown built-in. Use :help", <<>>, 0)>>

\* the entries a key has in the variables d
Entries(d, k) == {i \in 1..Len(d) : d[i][1] = k}

\* C7: :set with an equals sign in its argument cuts the argument at the
\* first equals sign, trims both sides and maps the key to the value,
\* replacing an earlier value, so that the key has one entry and :vars one
\* line for it; the same :set again changes nothing; without an equals sign
\* a usage error is printed and the variables stay; the outcome is continue.
C7_SetStoresTrimmedPair ==
    [][/\ (/\ pc = "dispatch"
           /\ IsBuiltin(raw)
           /\ StartsWith(Body(raw), <<"s", "e", "t", " ">>))
              => LET rest == Strip(From(Body(raw), 4))
                     eq == Find(rest, "=")
                     k == Strip(SubSeq(rest, 1, eq - 1))
                     v == Strip(From(rest, eq))
                 IN /\ result' = "continue"
                    /\ IF eq # 0
                       THEN /\ Keys(vars_map') = Keys(vars_map) \cup {k}
                            /\ DictGet(vars_map', k, <<"?">>) = v
                            /\ Cardinality(Entries(vars_map', k)) = 1
                            /\ \A j \in Keys(vars_map) \ {k} :
                                   /\ DictGet(vars_map', j, <<"?">>)
                                          = DictGet(vars_map, j, <<"?">>)
                                   /\ Cardinality(Entries(vars_map', j)) = 1
                            /\ err' = <<>>
                            /\ builtin(Body(raw), vars_map', cwd', HAVE_READLINE,
                                       history).vars_map = vars_map'
                       ELSE /\ vars_map' = vars_map
                            /\ err' = <<Msg("Usage: :set key=value", <<>>, 0)>>
       /\ (/\ pc = "dispatch"
           /\ raw = <<":", "s", "e", "t", " ", " ", "a", " ", "=", " ", "b",
                      "=", "c">>)
              => DictGet(vars_map', <<"a">>, <<"?">>) = <<"b", "=", "c">>
       /\ (pc = "dispatch" /\ raw = <<":", "s", "e", "t", " ", "k", "=", "2">>)
              => /\ DictGet(vars_map', <<"k">>, <<"?">>) = <<"2">>
                 /\ Len(vars_map') = Cardinality(Keys(vars_map'))
       /\ (pc = "dispatch" /\ raw = <<":", "v", "a", "r", "s">>)
              => /\ Len(out') = Cardinality(Keys(vars_map))
                 /\ \A k \in Keys(vars_map) :
                        Cardinality({i \in 1..Len(out') :
                            out'[i].text = k \o <<"=">>
                                \o DictGet(vars_map, k, <<"?">>)}) = 1
                 /\ result' = "continue"]_vars

\* k was set again after another variable and kept its place
C7_Witness ==
    /\ pc = "handled"
    /\ raw = <<":", "s", "e", "t", " ", "k", "=", "2">>
    /\ Len(vars_map) >= 2
    /\ vars_map[1] = << <<"k">>, <<"2">> >>

\* the reference to the variable k
Ref(k) == <<"$", "{">> \o k \o <<"}">>

\* texts without a dollar sign followed by an opening brace
NoRefTexts ==
    {l \in Lines : \A i \in 1..(Len(l) - 1) : ~(l[i] = "$" /\ l[i + 1] = "{")}
        \cup {<<"$">>, <<"$", "k">>, <<"{", "k", "}">>, <<"$", " ", "{", "k", "}">>}

\* identifiers, set or not
SomeIds == {<<"k">>, <<"a">>, <<"z", "z">>, <<"_", "1">>, <<"K">>}

\* C8: with the variables V, a text without a reference expands to itself,
\* the reference to a key of V expands to its value, and the reference to
\* an identifier that is no key of V stays as it is.
C8_ExpandVars ==
    /\ \A s \in NoRefTexts : expand_vars(s, vars_map) = s
    /\ \A k \in Keys(vars_map) :
           expand_vars(Ref(k), vars_map) = DictGet(vars_map, k, <<"?">>)
    /\ \A k \in SomeIds \ Keys(vars_map) :
           expand_vars(Ref(k), vars_map) = Ref(k)

\* the segments one after the other
RECURSIVE Flat(_)
Flat(parts) ==
    IF parts = <<>> THEN <<>>
    ELSE Flat(SubSeq(parts, 1, Len(parts) - 1)) \o parts[Len(parts)]

\* C9: a line read that ends with a backslash, as read, is buffered without
\* the backslash and the next line is read with the continuation prompt;
\* the logical line is the segments in read order without a separator,
\* trimmed, and it is dispatched once.
C9_ContinuationJoinsSegments ==
    [][/\ (pc = "read" /\ pc' = "read" /\ line_parts' # <<>>)
              => /\ EndsWith(line', <<"\\">>)
                 /\ line_parts'
                        = Append(line_parts, SubSeq(line', 1, Len(line') - 1))
                 /\ prompt' = cont_prompt
                 /\ raw' = raw
       /\ (pc = "read" /\ pc' = "dispatch")
              => /\ ~EndsWith(line', <<"\\">>)
                 /\ line_parts' = Append(line_parts, line')
                 /\ raw' = Strip(Flat(line_parts'))
                 /\ prompt' = IF line_parts = <<>> THEN PROMPT ELSE cont_prompt
       /\ (pc' = "dispatch" /\ line_parts' = <<<<"f", "o", "o">>, <<"b", "a", "r">>>>)
              => raw' = <<"f", "o", "o", "b", "a", "r">>
       /\ pc = "dispatch" => pc' \in {"wait", "handled"} /\ raw' = raw
       /\ pc = "wait" => pc' = "handled" /\ raw' = raw
       /\ pc = "handled" =>
              pc' # "dispatch" /\ (pc' = "read" => line_parts' = <<>>)]_vars

\* foo with a backslash and then bar are about to be handled as foobar
C9_Witness ==
    /\ pc = "dispatch"
    /\ line_parts = <<<<"f", "o", "o">>, <<"b", "a", "r">>>>
    /\ line = <<"b", "a", "r">>
    /\ prompt = cont_prompt
    /\ raw = <<"f", "o", "o", "b", "a", "r">>

\* C10: :cd with a path the working directory cannot be changed to prints
\* an error, leaves the working directory as it was, which :pwd then
\* prints, and returns continue; with a valid path the working directory
\* becomes the directory the path names.
C10_CdKeepsDirectoryOnFailure ==
    [][/\ (/\ pc = "dispatch"
           /\ IsBuiltin(raw)
           /\ StartsWith(Body(raw), <<"c", "d", " ">>))
              => LET path == Strip(From(Body(raw), 3))
                     target == IF path[1] = "/" THEN path
                               ELSE cwd \o <<"/">> \o path
                 IN /\ result' = "continue"
                    /\ IF target \in Dirs
                       THEN cwd' = target /\ err' = <<>>
                       ELSE cwd' = cwd /\ err' = <<Msg("cd: ", path, 0)>>
       /\ (pc = "dispatch" /\ raw = <<":", "p", "w", "d">>)
              => out' = <<Msg("", cwd, 0)>> /\ cwd' = cwd
       /\ (pc = "handled" /\ result = "continue") => pc' = "read" /\ cwd' = cwd
      ]_vars

\* a change to a missing directory failed after a change that worked
C10_Witness ==
    /\ pc = "handled"
    /\ raw = <<":", "c", "d", " ", "/", "n", "o">>
    /\ cwd = <<"/", "a", "/", "b">>
    /\ err = <<Msg("cd: ", <<"/", "n", "o">>, 0)>>
    /\ result = "continue"

(***************************************************************************)
(* C11: on every way the loop ends (an exit word, end of input, a base     *)
(* command that is not found, an exception that leaves the handler)        *)
(* save_history has run exactly once, and only then: it has not run while  *)
(* a line can still be read or handled. With readline it tries the write   *)
(* once; a write that failed leaves the end of the session as it was: the  *)
(* session is crashed only by the exception of a handler.                  *)
(***************************************************************************)
C11_HistorySavedOnceAtEnd ==
    /\ saves = IF pc \in {"done", "crashed"} THEN 1 ELSE 0
    /\ hist_writes = IF HAVE_READLINE THEN saves ELSE 0
    /\ pc = "crashed" => result = "raise"
    /\ pc = "done" => result \in {"-", "break"}
    /\ pc = "done" /\ result = "-" => err = <<>>

\* the session ended by an exception of the shell escape, and the write of
\* the history was tried and failed
C11_Witness ==
    /\ pc = "crashed"
    /\ saves = 1
    /\ hist_writes = 1
    /\ histfile # history

(***************************************************************************)
(* C12: with readline, the built-in history prints every entry of the      *)
(* history, oldest first, one line per entry, the line being the entry     *)
(* alone, and the loop goes on. The newest entry is the line that asked.   *)
(***************************************************************************)
C12_HistoryPrintsEntriesInOrder ==
    pc = "handled" /\ HAVE_READLINE /\ IsBuiltin(raw)
        /\ Body(raw) = <<"h", "i", "s", "t", "o", "r", "y">>
    => /\ Len(out) = Len(history)
       /\ \A i \in 1..Len(history) :
              out[i].text = history[i] /\ out[i].tag = "" /\ out[i].rc = 0
       /\ err = <<>>
       /\ result = "continue"

\* the statement as written: the line of entry i carries the number i
C12_HistoryPrintsIndex ==
    pc = "handled" /\ HAVE_READLINE /\ IsBuiltin(raw)
        /\ Body(raw) = <<"h", "i", "s", "t", "o", "r", "y">>
    => /\ Len(out) = Len(history)
       /\ \A i \in 1..Len(history) :
              out[i].text = history[i] /\ out[i].rc = i
       /\ result = "continue"

\* the history built-in has printed a history of two entries
C12_Witness ==
    /\ pc = "handled"
    /\ HAVE_READLINE
    /\ Body(raw) = <<"h", "i", "s", "t", "o", "r", "y">>
    /\ Len(history) = 2
    /\ Len(out) = 2
    /\ out[1].text = <<"o", "l", "d">>

\* the texts that match [A-Za-z_][A-Za-z0-9_]* as a whole
IsIdentifier(k) ==
    /\ k # <<>>
    /\ k[1] \in IdStart
    /\ \A i \in 1..Len(k) : k[i] \in IdChar

(***************************************************************************)
(* C13: in every state each key of vars_map is an identifier, and no key   *)
(* is held twice.                                                          *)
(***************************************************************************)
C13_KeysAreUniqueIdentifiers ==
    /\ \A i \in 1..Len(vars_map) : IsIdentifier(vars_map[i][1])
    /\ \A i, j \in 1..Len(vars_map) :
           vars_map[i][1] = vars_map[j][1] => i = j

\* the half of it that holds: no key is held twice
C13_KeysAreUnique ==
    \A i, j \in 1..Len(vars_map) : vars_map[i][1] = vars_map[j][1] => i = j

(***************************************************************************)
(* C14: when the child of a forwarded line has exited, with status zero or *)
(* not, handle_command returns the same result, which is not break; a      *)
(* status that is not zero is reported on the error stream with the name   *)
(* of the base command, a zero status is not reported; and the next step   *)
(* of the loop is the same in both cases: the next iteration, with the     *)
(* primary prompt, an empty line_parts and the session state as it was.    *)
(***************************************************************************)
C14_NonZeroStatusIsReportedOnly ==
    [][pc = "handled" /\ IsForward(raw) /\ outcome.kind = "exit"
       => /\ result = "None"
          /\ err = IF outcome.rc # 0
                   THEN <<Msg("exited with code ", Basename(base_cmd),
                              outcome.rc)>>
                   ELSE <<>>
          /\ Len(popen_calls) = 1
          /\ pc' = "read"
          /\ prompt' = PROMPT
          /\ line_parts' = <<>>
          /\ UNCHANGED <<vars_map, cwd, base_cmd, base_args, history,
                         saves, hist_writes>>]_vars

\* after a child that exited with status 127 was reported, and with a
\* variable set before, the loop is at the next prompt
C14_Witness ==
    /\ pc = "handled"
    /\ IsForward(raw)
    /\ outcome = [kind |-> "exit", rc |-> 127]
    /\ err = <<Msg("exited with code ", <<"g", "i", "t">>, 127)>>
    /\ vars_map # <<>>

(***************************************************************************)
(* C15: a logical line that is empty after the trim reaches no handler:    *)
(* the loop is at its next iteration with nothing printed, nothing run and *)
(* the variables, the directory and the base command as they were. A line  *)
(* that is dispatched is trimmed and not empty, and the step that handles  *)
(* it is the step of the one handler its first character names: a colon    *)
(* gives the effect of the built-in and no process, an exclamation mark    *)
(* gives the rest of the line to the shell and nothing to the base         *)
(* command, and any other character gives the line to the base command or  *)
(* a parse error, and nothing to the shell.                                *)
(***************************************************************************)
C15_OneHandlerByFirstCharacter ==
    [][/\ pc = "read" /\ pc' = "read" /\ line_parts' = <<>>
          => /\ UNCHANGED <<vars_map, cwd, base_cmd, base_args, saves>>
             /\ result' = "-" /\ out' = <<>> /\ err' = <<>>
             /\ popen_calls' = <<>> /\ shell_calls' = <<>>
             /\ prompt' = PROMPT
       /\ pc' = "dispatch" => raw' # <<>> /\ raw' = Strip(raw')
       /\ pc = "dispatch" /\ raw[1] = ":"
          => /\ LET e == builtin(Body(raw), vars_map, cwd, HAVE_READLINE,
                                 history)
                IN /\ result' = e.result /\ out' = e.out /\ err' = e.err
                   /\ vars_map' = e.vars_map /\ cwd' = e.cwd
             /\ popen_calls' = <<>> /\ shell_calls' = <<>>
       /\ pc = "dispatch" /\ raw[1] = "!"
          => /\ shell_calls' = IF Body(raw) = <<>> THEN <<>>
                               ELSE <<Body(raw)>>
             /\ popen_calls' = <<>> /\ out' = <<>>
             /\ UNCHANGED <<vars_map, cwd>>
       /\ pc = "dispatch" /\ raw[1] \notin {":", "!"}
          => /\ shell_calls' = <<>> /\ out' = <<>>
             /\ \/ Len(popen_calls') = 1 /\ popen_calls'[1][1] = base_cmd
                \/ /\ popen_calls' = <<>>
                   /\ Len(err') = 1 /\ err'[1].tag = "parse error: "
             /\ UNCHANGED <<vars_map, cwd>>]_vars

\* a variable was set by a built-in line, and a later line that starts
\* with an exclamation mark went to the shell and not to the base command
C15_Witness ==
    /\ vars_map # <<>>
    /\ raw # <<>> /\ raw[1] = "!"
    /\ shell_calls = <<Body(raw)>>
    /\ popen_calls = <<>>

\* texts that stand before and after a reference
AroundTexts == {<<>>, <<"x", " ">>, <<"$">>}

(***************************************************************************)
(* C16: the substitution is one pass from left to right. A value that is   *)
(* put in is not scanned again: with a holding the reference to b and b    *)
(* holding x, the reference to a expands to the reference to b. In every   *)
(* state, the reference to a key that is an identifier expands to its      *)
(* value as it is stored, whatever stands in the value, also twice in a    *)
(* row, and the text before and after the reference is copied unchanged.   *)
(***************************************************************************)
C16_SubstitutionIsOnePass ==
    /\ expand_vars(Ref(<<"a">>),
                   << <<(<<"a">>), Ref(<<"b">>)>>, <<(<<"b">>), <<"x">> >> >>)
           = Ref(<<"b">>)
    /\ \A k \in Keys(vars_map) :
           IsIdentifier(k) =>
               LET val == DictGet(vars_map, k, <<"?">>) IN
               /\ \A pre, post \in AroundTexts :
                      expand_vars(pre \o Ref(k) \o post, vars_map)
                          = pre \o val \o post
               /\ expand_vars(Ref(k) \o Ref(k), vars_map) = val \o val

\* a holds the reference to k, k holds 1, and the forwarded line x${a} gave
\* the base command the argument x${k}
C16_Witness ==
    /\ pc = "handled"
    /\ DictGet(vars_map, <<"a">>, <<>>) = Ref(<<"k">>)
    /\ DictGet(vars_map, <<"k">>, <<>>) = <<"1">>
    /\ raw = <<"x">> \o Ref(<<"a">>)
    /\ popen_calls = <<(<<base_cmd>> \o base_args \o <<(<<"x">> \o Ref(<<"k">>))>>)>>

(***************************************************************************)
(* C17: the loop is sequential. At most one child runs, and one runs       *)
(* exactly while handle_command waits for it. A line is read only in a     *)
(* step that starts where input() is called, with no child running; while  *)
(* a line is being handled or its child runs no line is read (the history  *)
(* and the segments stay), the only step of a waiting handler is the exit  *)
(* of its child, and input() is called again only after handle_command     *)
(* returned.                                                               *)
(***************************************************************************)
C17_LoopIsSequential ==
    [][/\ running \in {0, 1} /\ running' \in {0, 1}
       /\ running = 1 <=> pc = "wait"
       /\ running' = 1 <=> pc' = "wait"
       /\ (history' # history \/ line' # line \/ line_parts' # line_parts)
              => /\ running = 0
                 /\ pc \in {"read", "handled"}
                 /\ pc = "handled" => pc' = "read" /\ line' = <<>>
       /\ pc \in {"dispatch", "wait"} => pc' \in {"wait", "handled"}
       /\ pc = "wait" => pc' = "handled" /\ running' = 0
       /\ pc' = "read" => pc \in {"read", "handled"} /\ running = 0]_vars

\* the child of a line is running while a variable set by an earlier line
\* is held: the loop waits
C17_Witness ==
    /\ pc = "wait"
    /\ running = 1
    /\ popen_calls # <<>>
    /\ result = "-"
    /\ vars_map # <<>>

(***************************************************************************)
(* C18: no step changes the base command or the base-args. A step that     *)
(* changes vars_map is the handling of a built-in line whose text is set,  *)
(* a blank and a rest with an equals sign; it removes no key. Every other  *)
(* step, of any handler and of the loop, leaves vars_map as it is.         *)
(***************************************************************************)
C18_OnlySetChangesVariables ==
    [][/\ UNCHANGED <<base_cmd, base_args>>
       /\ vars_map' # vars_map
              => /\ pc = "dispatch"
                 /\ IsBuiltin(raw)
                 /\ StartsWith(Body(raw), <<"s", "e", "t", " ">>)
                 /\ Contains(From(Body(raw), 4), "=")
                 /\ Keys(vars_map) \subseteq Keys(vars_map')]_vars

\* with a variable set, a directory was entered and a shell escape was
\* handled, and the variable is still held
C18_Witness ==
    /\ pc = "handled"
    /\ vars_map = << <<(<<"k">>), <<"1">> >> >>
    /\ cwd = <<"/", "a", "/", "b">>
    /\ shell_calls # <<>>

(***************************************************************************)
(* C19: only a forwarded line is expanded. The host shell is given the     *)
(* text after the exclamation mark as it was typed, and :set stores the    *)
(* value as it was typed, also when the text holds a reference to a        *)
(* variable that is set: ! ls ${k} gives the shell ls ${k}, and            *)
(* :set a=${k} stores ${k} under a.                                        *)
(***************************************************************************)
C19_OnlyForwardedLinesAreExpanded ==
    [][/\ (pc = "dispatch" /\ IsShell(raw) /\ Body(raw) # <<>>)
              => shell_calls' = <<Body(raw)>>
       /\ (pc = "dispatch" /\ raw = <<"!", " ", "l", "s", " ">> \o Ref(<<"k">>))
              => shell_calls' = <<(<<"l", "s", " ">> \o Ref(<<"k">>))>>
       /\ (/\ pc = "dispatch" /\ IsBuiltin(raw)
           /\ StartsWith(Body(raw), <<"s", "e", "t", " ">>)
           /\ Contains(From(Body(raw), 4), "="))
              => LET rest == Strip(From(Body(raw), 4))
                     eq == Find(rest, "=")
                 IN DictGet(vars_map', Strip(SubSeq(rest, 1, eq - 1)), <<"?">>)
                        = Strip(From(rest, eq))
       /\ (pc = "dispatch" /\ raw = <<":", "s", "e", "t", " ", "a", "=">> \o Ref(<<"k">>))
              => DictGet(vars_map', <<"a">>, <<>>) = Ref(<<"k">>)]_vars

\* with k set to 1, a was set to the text ${k} and the shell was given the
\* text ls ${k}
C19_Witness ==
    /\ DictGet(vars_map, <<"k">>, <<>>) = <<"1">>
    /\ DictGet(vars_map, <<"a">>, <<>>) = Ref(<<"k">>)
    /\ vars_map[1][1] = <<"k">>
    /\ shell_calls = <<(<<"l", "s", " ">> \o Ref(<<"k">>))>>

(***************************************************************************)
(* C20: when the input ends while segments of a continued line are held,   *)
(* the loop ends in that step: the segments are not joined and no handler  *)
(* gets them, no process and no shell is started, the variables and the    *)
(* directory stay, save_history runs (and with readline tries the write),  *)
(* and after the end nothing is handled any more.                          *)
(***************************************************************************)
C20_EofDropsPendingSegments ==
    [][/\ (pc = "read" /\ line_parts # <<>> /\ line_parts' = line_parts)
              => /\ pc' = "done"
                 /\ raw' = raw
                 /\ result' = "-"
                 /\ popen_calls' = <<>> /\ shell_calls' = <<>>
                 /\ outcome' = NoCall
                 /\ err' = <<>>
                 /\ running' = 0
                 /\ UNCHANGED <<vars_map, cwd, base_cmd, base_args, history>>
                 /\ saves' = saves + 1
                 /\ hist_writes'
                        = hist_writes + (IF HAVE_READLINE THEN 1 ELSE 0)
       /\ pc # "done"]_vars

\* the input ended after the segment foo of a continued line, with a
\* variable set before: the session is over and the history was saved
C20_Witness ==
    /\ pc = "done"
    /\ line_parts = <<(<<"f", "o", "o">>)>>
    /\ prompt = cont_prompt
    /\ result = "-"
    /\ saves = 1
    /\ vars_map # <<>>

====
